---------------------------- MODULE Spec2Model ----------------------------
(***************************************************************************)
(* A model of zigpy/types/basic.py: the wire codecs (fixed-width integers, *)
(* floats, enums, length-prefixed bytes and text, lists, the optional      *)
(* wrapper) and the cache of parameterized list types kept by              *)
(* KwargTypeMeta.                                                          *)
(*                                                                         *)
(* A byte string is a sequence of naturals below 256.  A call that may     *)
(* raise returns a record whose field err is "none" or the name of the     *)
(* exception raised.                                                       *)
(***************************************************************************)
EXTENDS Integers, Sequences, FiniteSets, TLC

VARIABLES
    anonymous_classes,  \* KwargTypeMeta._anonymous_classes: (cls, expanded_key) -> class id
    classes,            \* every AnonSubclass created so far: class id -> its base and kwargs
    thr,                \* per thread: where it is inside __getitem__, its locals, its result
    returned,           \* history: every [cls, key, id] record a request returned
    arg,                \* the input of the codec operation under study
    pc,                 \* the position of the codec operation under study
    inst,               \* the value constructed or decoded so far
    wire,               \* the bytes produced by serialize
    res,                \* the result of the last deserialize
    data,               \* List.deserialize: the local `data`
    lst                 \* List.deserialize: the local `lst`

cacheVars == <<anonymous_classes, classes, thr, returned>>
codecVars == <<arg, pc, inst, wire, res, data, lst>>
vars == <<anonymous_classes, classes, thr, returned, arg, pc, inst, wire, res, data, lst>>

----------------------------------------------------------------------------
(* Bounds of the model.                                                    *)

\* Number of threads calling Base[params].
NumThreads == 2
\* Most AnonSubclass objects created in one run.
MaxClasses == 2
\* Most requests one thread makes in the interleaved specification.
MaxCalls == 2

\* Widest integer type modelled, in bytes (the code has 1..8).
MaxIntSize == 2
\* Longest run of bytes that follows an encoded value in a buffer.
MaxTail == 2

\* Longest payload (bytes or characters) enumerated in full.
MaxPayload == 2

\* Longest buffer handed to a decoder.
MaxBuf == 3

Threads == 1..NumThreads

\* The byte values buffers are built from.
SampleBytes == {0, 1, 128, 255}
\* The byte strings of length at most n over SampleBytes.
ByteStrings(n) == UNION {[1..k -> SampleBytes] : k \in 0..n}

Min(a, b) == IF a < b THEN a ELSE b
Max(a, b) == IF a > b THEN a ELSE b

RECURSIVE Pow(_, _)
Pow(b, e) == IF e = 0 THEN 1 ELSE b * Pow(b, e - 1)

----------------------------------------------------------------------------
(* KwargTypeMeta: the cache of parameterized types.                        *)

\* A value passed as a type parameter: a type object or an integer.
TypeVal(name) == [kind |-> "type", name |-> name, n |-> 0]
IntVal(n) == [kind |-> "int", name |-> "", n |-> n]
\* "No default": the None of _getitem_kwargs, turned into Parameter.empty.
NoDefault == [kind |-> "empty", name |-> "", n |-> 0]

ItemVals == {TypeVal("uint8_t"), TypeVal("uint16_t")}
ParamVals == ItemVals \cup {IntVal(2)}

\* The longest parameter list of a base type: LVList and FixedList take 2.
MaxParams == 2

\* The parameterizable base types.
Bases == {"List", "LVList", "FixedList"}

\* cls._getitem_kwargs: the parameters in order, each with its default.
getitem_kwargs(cls) ==
    CASE cls = "List" -> << [name |-> "item_type", default |-> NoDefault] >>
      [] cls = "LVList" -> << [name |-> "item_type", default |-> NoDefault],
                              [name |-> "length_type", default |-> TypeVal("uint8_t")] >>
      [] cls = "FixedList" -> << [name |-> "item_type", default |-> NoDefault],
                                 [name |-> "length", default |-> NoDefault] >>

\* What is written between the brackets: a bare value (Foo[a]) or a tuple
\* (Foo[a,], Foo[a, b]).  The first parameter is always an item type.
RawKeys ==
    {[isTuple |-> FALSE, items |-> <<a>>] : a \in ItemVals}
    \cup {[isTuple |-> TRUE, items |-> s] :
            s \in {t \in UNION {[1..n -> ParamVals] : n \in 1..MaxParams} :
                      t[1] \in ItemVals}}

\* Lines 346-347: a key that is not a tuple becomes a 1-tuple.
NormalizeKey(key) == IF key.isTuple THEN key.items ELSE <<key.items[1]>>

\* Lines 349-364: signature.bind(*key), apply_defaults(), the tuple of the
\* bound arguments.  TypeError when there are too many arguments or a
\* parameter without default is missing.
ExpandKeyNoDefaults(cls, key) ==
    LET params == getitem_kwargs(cls)
        items == NormalizeKey(key)
    IN  IF Len(items) > Len(params)
        THEN [err |-> "TypeError", key |-> <<>>]
        ELSE IF \E i \in (Len(items) + 1)..Len(params) : params[i].default = NoDefault
        THEN [err |-> "TypeError", key |-> <<>>]
        ELSE [err |-> "none", key |-> items]

ExpandKey(cls, key) ==
    LET params == getitem_kwargs(cls)
        items == NormalizeKey(key)
    IN  IF Len(items) > Len(params)
        THEN [err |-> "TypeError", key |-> <<>>]
        ELSE IF \E i \in (Len(items) + 1)..Len(params) : params[i].default = NoDefault
        THEN [err |-> "TypeError", key |-> <<>>]
        ELSE [err |-> "none",
              key |-> [i \in 1..Len(params) |->
                          IF i <= Len(items) THEN items[i] ELSE params[i].default]]

\* The dictionary key (cls, expanded_key).
CacheKey(cls, expanded) == [cls |-> cls, key |-> expanded]

\* Line 366: (cls, expanded_key) in cls._anonymous_classes
Cached(cache, k) == k \in DOMAIN cache

\* Lines 369-372: class AnonSubclass(cls, **bound.arguments): a new class
\* object, distinct from every class created before.
NewClassId(cs) == Cardinality(DOMAIN cs) + 1

\* Line 373: cls._anonymous_classes[cls, expanded_key] = AnonSubclass
Store(cache, k, id) ==
    [x \in DOMAIN cache \cup {k} |-> IF x = k THEN id ELSE cache[x]]

NoKey == CacheKey("", <<>>)
NoRawKey == [isTuple |-> FALSE, items |-> <<>>]
NoClass == 0
IdleThread == [pc |-> "idle", cls |-> "", key |-> NoRawKey, k |-> NoKey,
               new |-> NoClass, ret |-> NoClass, err |-> "none", calls |-> 0]

\* One entry of the history of returned descriptors.
Returned(cls, key, id) == [cls |-> cls, key |-> key, id |-> id]

CodecIdle ==
    /\ arg = [op |-> "none"]
    /\ pc = "none"
    /\ inst = 0
    /\ wire = <<>>
    /\ res = [err |-> "none"]
    /\ data = <<>>
    /\ lst = <<>>

CacheIdle ==
    /\ anonymous_classes = <<>>
    /\ classes = <<>>
    /\ thr = [t \in Threads |-> IdleThread]
    /\ returned = {}

CacheInit ==
    /\ CacheIdle
    /\ CodecIdle

\* KwargTypeMeta.__getitem__, one whole call (no other thread runs meanwhile).
GetItem(t, cls, key) ==
    LET e == ExpandKey(cls, key)
        k == CacheKey(cls, e.key)
        id == NewClassId(classes)
    IN  /\ thr[t].pc = "idle"
        /\ IF e.err # "none"
           THEN /\ thr' = [thr EXCEPT ![t] = [IdleThread EXCEPT !.err = e.err]]
                /\ UNCHANGED <<anonymous_classes, classes, returned>>
           ELSE IF Cached(anonymous_classes, k)
           THEN /\ thr' = [thr EXCEPT ![t] =
                              [IdleThread EXCEPT !.ret = anonymous_classes[k]]]
                /\ returned' = returned \cup {Returned(cls, key, anonymous_classes[k])}
                /\ UNCHANGED <<anonymous_classes, classes>>
           ELSE /\ id <= MaxClasses
                /\ classes' = Store(classes, id, k)
                /\ anonymous_classes' = Store(anonymous_classes, k, id)
                /\ thr' = [thr EXCEPT ![t] = [IdleThread EXCEPT !.ret = id]]
                /\ returned' = returned \cup {Returned(cls, key, id)}
        /\ UNCHANGED codecVars

SeqNext == \E cls \in Bases, key \in RawKeys : GetItem(1, cls, key)

\* Requests made one after another.
SpecCacheSeq == CacheInit /\ [][SeqNext]_vars

\* --- the same method, one step per point where another thread may run ---

\* Lines 346-364: the key is expanded in locals; a failed bind raises.
Call(t, cls, key) ==
    LET e == ExpandKey(cls, key)
    IN  /\ thr[t].pc = "idle"
        /\ thr[t].calls < MaxCalls
        /\ thr' = [thr EXCEPT ![t] =
              IF e.err # "none"
              THEN [IdleThread EXCEPT !.err = e.err, !.calls = thr[t].calls + 1]
              ELSE [IdleThread EXCEPT !.pc = "check", !.cls = cls, !.key = key,
                                      !.k = CacheKey(cls, e.key),
                                      !.calls = thr[t].calls + 1]]
        /\ UNCHANGED <<anonymous_classes, classes, returned>>
        /\ UNCHANGED codecVars

\* Line 366: the membership test.
Check(t) ==
    /\ thr[t].pc = "check"
    /\ thr' = [thr EXCEPT ![t].pc =
                  IF Cached(anonymous_classes, thr[t].k) THEN "hit" ELSE "miss"]
    /\ UNCHANGED <<anonymous_classes, classes, returned>>
    /\ UNCHANGED codecVars

\* Line 367: the cached class is read and returned.
ReadHit(t) ==
    /\ thr[t].pc = "hit"
    /\ thr' = [thr EXCEPT ![t] = [IdleThread EXCEPT !.ret = anonymous_classes[thr[t].k],
                                                    !.calls = thr[t].calls]]
    /\ returned' = returned
          \cup {Returned(thr[t].cls, thr[t].key, anonymous_classes[thr[t].k])}
    /\ UNCHANGED <<anonymous_classes, classes>>
    /\ UNCHANGED codecVars

\* Lines 369-372: the class statement creates AnonSubclass.
Construct(t) ==
    LET id == NewClassId(classes)
    IN  /\ thr[t].pc = "miss"
        /\ id <= MaxClasses
        /\ classes' = Store(classes, id, thr[t].k)
        /\ thr' = [thr EXCEPT ![t].pc = "built", ![t].new = id]
        /\ UNCHANGED <<anonymous_classes, returned>>
        /\ UNCHANGED codecVars

\* Lines 373-375: the class is stored under the key and returned.
StoreReturn(t) ==
    /\ thr[t].pc = "built"
    /\ anonymous_classes' = Store(anonymous_classes, thr[t].k, thr[t].new)
    /\ thr' = [thr EXCEPT ![t] = [IdleThread EXCEPT !.ret = thr[t].new,
                                                    !.calls = thr[t].calls]]
    /\ returned' = returned \cup {Returned(thr[t].cls, thr[t].key, thr[t].new)}
    /\ UNCHANGED classes
    /\ UNCHANGED codecVars

\* The requests the threads race on: lists of a type, with or without an
\* explicit length type.
ConcBases == {"List", "LVList"}
ConcRawKeys == {key \in RawKeys : \A i \in DOMAIN key.items : key.items[i].kind = "type"}

ConcNext ==
    \E t \in Threads :
        \/ \E cls \in ConcBases, key \in ConcRawKeys : Call(t, cls, key)
        \/ Check(t)
        \/ ReadHit(t)
        \/ Construct(t)
        \/ StoreReturn(t)

\* Requests made by several threads; a thread switch may fall between any
\* two steps of __getitem__, which takes no lock.
SpecCacheConc == CacheInit /\ [][ConcNext]_vars

----------------------------------------------------------------------------
(* FixedIntType: little-endian integers of 1..8 bytes.                     *)

\* A call's outcome: err is "none" or the exception; value and rest are the
\* returned pair.
Ok(value, rest) == [err |-> "none", value |-> value, rest |-> rest]
Raise(exc) == [err |-> exc, value |-> 0, rest |-> <<>>]

\* data[n:]
Drop(s, n) == SubSeq(s, n + 1, Len(s))
\* data[:n]
Take(s, n) == SubSeq(s, 1, Min(n, Len(s)))

\* int.to_bytes(size, "little", signed=signed), line 45: the low `size`
\* base-256 digits of n in two's complement; OverflowError when n is
\* negative and the type unsigned, or when bits of n are left over.
IntToBytesBigEndian(n, size, signed) ==
    LET digits == [i \in 1..size |-> (n \div Pow(256, size - i)) % 256]
    IN  [err |-> "none", bytes |-> digits]

IntToBytesNoSign(n, size, signed) ==
    LET digits == [i \in 1..size |-> (n \div Pow(256, i - 1)) % 256]
        rest == n \div Pow(256, size)
    IN  IF rest = 0 \/ (signed /\ rest = -1)
        THEN [err |-> "none", bytes |-> digits]
        ELSE [err |-> "OverflowError", bytes |-> <<>>]

IntToBytes(n, size, signed) ==
    LET digits == [i \in 1..size |-> (n \div Pow(256, i - 1)) % 256]
        rest == n \div Pow(256, size)
        fits == IF signed
                THEN \/ rest = 0 /\ digits[size] < 128
                     \/ rest = -1 /\ digits[size] >= 128
                ELSE n >= 0 /\ rest = 0
    IN  IF fits
        THEN [err |-> "none", bytes |-> digits]
        ELSE [err |-> "OverflowError", bytes |-> <<>>]

\* int.from_bytes(data, "little", signed=signed), line 55.
RECURSIVE UnsignedLE(_)
UnsignedLE(bytes) ==
    IF bytes = <<>> THEN 0 ELSE bytes[1] + 256 * UnsignedLE(Tail(bytes))

IntFromBytes(bytes, signed) ==
    IF signed /\ Len(bytes) > 0 /\ bytes[Len(bytes)] >= 128
    THEN UnsignedLE(bytes) - Pow(256, Len(bytes))
    ELSE UnsignedLE(bytes)

\* FixedIntType.serialize, lines 43-48: OverflowError becomes ValueError.
IntSerialize(type, n) ==
    LET b == IntToBytes(n, type.size, type.signed)
    IN  IF b.err = "OverflowError"
        THEN [err |-> "ValueError", bytes |-> <<>>]
        ELSE b

\* FixedIntType.__new__, lines 13-20: the instance is serialized once, so an
\* out-of-range value raises.
IntNew(type, n) ==
    LET b == IntSerialize(type, n)
    IN  IF b.err # "none" THEN Raise(b.err) ELSE Ok(n, <<>>)

\* FixedIntType.deserialize, lines 50-57.
IntDeserialize(type, buf) ==
    IF Len(buf) < type.size
    THEN Raise("ValueError")
    ELSE Ok(IntFromBytes(Take(buf, type.size), type.signed), Drop(buf, type.size))

IntTypes == [size : 1..MaxIntSize, signed : BOOLEAN]

\* The integers tried: around zero, around every type's limits, and 0x1234.
SampleInts ==
    UNION {{c + d : d \in -2..2} :
             c \in {0} \cup UNION {{-Pow(256, w), -(Pow(256, w) \div 2),
                                    Pow(256, w) \div 2, Pow(256, w)} :
                                   w \in 1..MaxIntSize}}
    \cup {4660, -4660, 77, -77}

IntInit ==
    /\ CacheIdle
    /\ arg \in [op : {"int"}, type : IntTypes, n : SampleInts, tail : ByteStrings(MaxTail)]
    /\ pc = "new"
    /\ inst = 0
    /\ wire = <<>>
    /\ res = Ok(0, <<>>)
    /\ data = <<>>
    /\ lst = <<>>

\* cls(n)
IntConstruct ==
    LET r == IntNew(arg.type, arg.n)
    IN  /\ pc = "new"
        /\ pc' = IF r.err = "none" THEN "made" ELSE "range_error"
        /\ inst' = r.value
        /\ res' = r
        /\ UNCHANGED <<arg, wire, data, lst>>
        /\ UNCHANGED cacheVars

\* instance.serialize()
IntEncode ==
    /\ pc = "made"
    /\ wire' = IntSerialize(arg.type, inst).bytes
    /\ pc' = "serialized"
    /\ UNCHANGED <<arg, inst, res, data, lst>>
    /\ UNCHANGED cacheVars

\* cls.deserialize(instance.serialize() + tail)
IntDecode ==
    /\ pc = "serialized"
    /\ res' = IntDeserialize(arg.type, wire \o arg.tail)
    /\ pc' = "decoded"
    /\ UNCHANGED <<arg, inst, wire, data, lst>>
    /\ UNCHANGED cacheVars

\* cls.deserialize of a buffer cut short of the type's size
IntDecodeShort ==
    /\ pc = "serialized"
    /\ \E k \in 0..(arg.type.size - 1) : res' = IntDeserialize(arg.type, Take(wire, k))
    /\ pc' = "short"
    /\ UNCHANGED <<arg, inst, wire, data, lst>>
    /\ UNCHANGED cacheVars

\* cls.deserialize of arbitrary bytes
IntDecodeRaw ==
    /\ pc = "new"
    /\ res' = IntDeserialize(arg.type, arg.tail)
    /\ pc' = "raw"
    /\ UNCHANGED <<arg, inst, wire, data, lst>>
    /\ UNCHANGED cacheVars

IntNext == IntConstruct \/ IntEncode \/ IntDecode \/ IntDecodeShort \/ IntDecodeRaw

SpecInt == IntInit /\ [][IntNext]_vars

----------------------------------------------------------------------------
(* LVBytes, LongOctetString, CharacterString, LongCharacterString.         *)

\* _prefix_length of the 1-byte and the 2-byte variants.
PrefixLengths == {1, 2}

\* LVBytes.serialize, lines 299-302.
LVBytesSerialize(prefix_length, payload) ==
    IF Len(payload) >= Pow(256, prefix_length) - 1
    THEN [err |-> "ValueError", bytes |-> <<>>]
    ELSE [err |-> "none",
          bytes |-> IntToBytes(Len(payload), prefix_length, FALSE).bytes \o payload]

\* LVBytes.deserialize, lines 304-316.
LVBytesDeserialize(prefix_length, buf) ==
    IF Len(buf) < prefix_length
    THEN Raise("ValueError")
    ELSE LET num_bytes == IntFromBytes(Take(buf, prefix_length), FALSE)
         IN  IF Len(buf) < prefix_length + num_bytes
             THEN Raise("ValueError")
             ELSE Ok(SubSeq(buf, prefix_length + 1, prefix_length + num_bytes),
                     Drop(buf, prefix_length + num_bytes))

\* A text is a sequence of code points.  U+FFFD is what the decoder puts in
\* place of bytes it cannot decode.
Replacement == 65533

\* str.encode("utf8") of one code point, line 488.
Utf8Char(c) ==
    IF c < 128 THEN <<c>>
    ELSE IF c < 2048 THEN <<192 + (c \div 64), 128 + (c % 64)>>
    ELSE IF c < 65536
    THEN <<224 + (c \div 4096), 128 + ((c \div 64) % 64), 128 + (c % 64)>>
    ELSE <<240 + (c \div 262144), 128 + ((c \div 4096) % 64),
           128 + ((c \div 64) % 64), 128 + (c % 64)>>

\* str.encode("utf8"), line 488: the characters' bytes in order (the text
\* is split in halves to keep the evaluation shallow).
RECURSIVE Utf8Encode(_)
Utf8Encode(text) ==
    IF text = <<>> THEN <<>>
    ELSE IF Len(text) = 1 THEN Utf8Char(text[1])
    ELSE LET h == Len(text) \div 2
         IN  Utf8Encode(SubSeq(text, 1, h)) \o Utf8Encode(SubSeq(text, h + 1, Len(text)))

IsCont(b) == 128 <= b /\ b <= 191

\* The second byte a lead byte accepts (no overlong forms, no surrogates,
\* nothing above U+10FFFF).
SecondOk(b1, b2) ==
    CASE b1 = 224 -> 160 <= b2 /\ b2 <= 191
      [] b1 = 237 -> 128 <= b2 /\ b2 <= 159
      [] b1 = 240 -> 144 <= b2 /\ b2 <= 191
      [] b1 = 244 -> 128 <= b2 /\ b2 <= 143
      [] OTHER -> IsCont(b2)

\* bytes.decode("utf8", errors="replace") of the first character, line 501:
\* the code point and the number of bytes it takes; an ill-formed sequence
\* gives U+FFFD for its longest well-formed start.
Utf8First(b) ==
    LET n == Len(b)
        b1 == b[1]
        bad(k) == [char |-> Replacement, used |-> k]
    IN  IF b1 < 128 THEN [char |-> b1, used |-> 1]
        ELSE IF b1 < 194 \/ b1 > 244 THEN bad(1)
        ELSE IF n < 2 \/ ~SecondOk(b1, b[2]) THEN bad(1)
        ELSE IF b1 < 224
        THEN [char |-> (b1 - 192) * 64 + (b[2] - 128), used |-> 2]
        ELSE IF n < 3 \/ ~IsCont(b[3]) THEN bad(2)
        ELSE IF b1 < 240
        THEN [char |-> (b1 - 224) * 4096 + (b[2] - 128) * 64 + (b[3] - 128),
              used |-> 3]
        ELSE IF n < 4 \/ ~IsCont(b[4]) THEN bad(3)
        ELSE [char |-> (b1 - 240) * 262144 + (b[2] - 128) * 4096
                        + (b[3] - 128) * 64 + (b[4] - 128),
              used |-> 4]

\* bytes.decode("utf8", errors="replace"), line 501.  A byte that is no
\* continuation byte always starts a character, so the bytes may be cut
\* there and the two parts decoded apart (which keeps the evaluation
\* shallow); with no such byte the characters are taken one by one.
RECURSIVE Utf8Decode(_)
Utf8Decode(b) ==
    IF b = <<>> THEN <<>>
    ELSE LET n == Len(b)
             cuts == {i \in 2..n : ~IsCont(b[i])}
             dist(i) == IF 2 * i >= n THEN 2 * i - n ELSE n - 2 * i
         IN  IF n <= 4 \/ cuts = {}
             THEN LET f == Utf8First(b)
                  IN  <<f.char>> \o Utf8Decode(Drop(b, f.used))
             ELSE LET mid == CHOOSE i \in cuts : \A j \in cuts : dist(i) <= dist(j)
                  IN  Utf8Decode(SubSeq(b, 1, mid - 1)) \o Utf8Decode(SubSeq(b, mid, n))

\* raw.split(b"\x00")[0], line 501: the bytes before the first zero byte.
BeforeZero(raw) ==
    IF \E i \in 1..Len(raw) : raw[i] = 0
    THEN SubSeq(raw, 1, (CHOOSE i \in 1..Len(raw) :
                            raw[i] = 0 /\ \A j \in 1..(i - 1) : raw[j] # 0) - 1)
    ELSE raw

\* CharacterString.serialize, lines 483-488: len(self) counts characters.
StrSerialize(prefix_length, text) ==
    IF Len(text) >= Pow(256, prefix_length) - 1
    THEN [err |-> "ValueError", bytes |-> <<>>]
    ELSE [err |-> "none",
          bytes |-> IntToBytes(Len(text), prefix_length, FALSE).bytes
                    \o Utf8Encode(text)]

\* CharacterString.deserialize, lines 490-503.  The value is the text; the
\* attribute raw keeps the bytes read.
StrDeserialize(prefix_length, buf) ==
    IF Len(buf) < prefix_length
    THEN Raise("ValueError")
    ELSE LET length == IntFromBytes(Take(buf, prefix_length), FALSE)
         IN  IF Len(buf) < prefix_length + length
             THEN Raise("ValueError")
             ELSE LET raw == SubSeq(buf, prefix_length + 1, prefix_length + length)
                  IN  Ok(Utf8Decode(BeforeZero(raw)), Drop(buf, prefix_length + length))

LVSerialize(kind, prefix_length, value) ==
    IF kind = "bytes" THEN LVBytesSerialize(prefix_length, value)
                      ELSE StrSerialize(prefix_length, value)

LVDeserialize(kind, prefix_length, buf) ==
    IF kind = "bytes" THEN LVBytesDeserialize(prefix_length, buf)
                      ELSE StrDeserialize(prefix_length, buf)

\* The characters texts are built from: NUL, "A", e-acute (2 bytes in
\* UTF-8), U+FFFD (3 bytes), an emoji (4 bytes).
SampleChars == {0, 65, 233, 65533, 128512}

Fill(n, x) == [i \in 1..n |-> x]

\* Payloads: every short one, and long ones around the 1-byte prefix limit.
LVValues(kind) ==
    IF kind = "bytes"
    THEN ByteStrings(MaxPayload) \cup {Fill(n, 1) : n \in 253..256}
    ELSE UNION {[1..k -> SampleChars] : k \in 0..MaxPayload}
         \cup {Fill(n, 65) : n \in 253..256} \cup {Fill(n, 233) : n \in 127..128}

LVInit ==
    /\ CacheIdle
    /\ \E kind \in {"bytes", "text"}, pl \in PrefixLengths :
          \E v \in LVValues(kind) :
              arg = [op |-> "lv", kind |-> kind, prefix_length |-> pl, value |-> v]
    /\ pc = "new"
    /\ inst = <<>>
    /\ wire = <<>>
    /\ res = Ok(<<>>, <<>>)
    /\ data = <<>>
    /\ lst = <<>>

\* value.serialize()
LVEncode ==
    LET r == LVSerialize(arg.kind, arg.prefix_length, arg.value)
    IN  /\ pc = "new"
        /\ pc' = IF r.err = "none" THEN "serialized" ELSE "too_long"
        /\ wire' = r.bytes
        /\ UNCHANGED <<arg, inst, res, data, lst>>
        /\ UNCHANGED cacheVars

\* cls.deserialize(value.serialize())
LVDecode ==
    /\ pc = "serialized"
    /\ res' = LVDeserialize(arg.kind, arg.prefix_length, wire)
    /\ pc' = "decoded"
    /\ UNCHANGED <<arg, inst, wire, data, lst>>
    /\ UNCHANGED cacheVars

\* cls.deserialize(value.serialize())[0].serialize(); the bytes go to inst.
LVReencode ==
    LET r == LVSerialize(arg.kind, arg.prefix_length, res.value)
    IN  /\ pc = "decoded"
        /\ res.err = "none"
        /\ pc' = IF r.err = "none" THEN "reencoded" ELSE "reencode_error"
        /\ inst' = r.bytes
        /\ UNCHANGED <<arg, wire, res, data, lst>>
        /\ UNCHANGED cacheVars

LVNext == LVEncode \/ LVDecode \/ LVReencode

SpecLV == LVInit /\ [][LVNext]_vars

----------------------------------------------------------------------------
(* Composite codecs: FixedList, LVList, List, Optional.                    *)

\* A decoded value, tagged with what it is.
IntV(n) == [tag |-> "int", val |-> n]
BytesV(b) == [tag |-> "bytes", val |-> b]
StrV(t) == [tag |-> "str", val |-> t]
ListV(items) == [tag |-> "list", val |-> items]
\* Python's None.
NoneV == [tag |-> "None", val |-> 0]

\* The outcome r of a decoder, with its value tagged by f.
Tagged(r, v) == IF r.err = "none" THEN Ok(v, r.rest) ELSE Raise(r.err)

\* The wire types used as items and as wrapped types.  item names the item
\* type of a list or the type Optional wraps.
Codec(kind, size, signed, length, item) ==
    [kind |-> kind, size |-> size, signed |-> signed, length |-> length, item |-> item]

CodecOf(name) ==
    CASE name = "uint8_t" -> Codec("int", 1, FALSE, 0, "")
      [] name = "uint16_t" -> Codec("int", 2, FALSE, 0, "")
      [] name = "int16s" -> Codec("int", 2, TRUE, 0, "")
      [] name = "LVBytes" -> Codec("bytes", 1, FALSE, 0, "")
      [] name = "LongOctetString" -> Codec("bytes", 2, FALSE, 0, "")
      [] name = "CharacterString" -> Codec("str", 1, FALSE, 0, "")
      [] name = "FixedList[uint8_t, 0]" -> Codec("FixedList", 0, FALSE, 0, "uint8_t")
      [] name = "data16" -> Codec("FixedList", 0, FALSE, 2, "uint8_t")
      [] name = "LVList[uint16_t]" -> Codec("LVList", 1, FALSE, 0, "uint16_t")

RECURSIVE Deserialize(_, _)
RECURSIVE DecodeItems(_, _, _)

\* The loop of FixedList.deserialize (lines 473-477) and of
\* LVList.deserialize (lines 447-451): n items, each from the rest of the
\* one before; an item's exception ends the call.
DecodeItems(item, n, buf) ==
    IF n = 0 THEN Ok(<<>>, buf)
    ELSE LET r == Deserialize(item, buf)
         IN  IF r.err # "none" THEN Raise(r.err)
             ELSE LET more == DecodeItems(item, n - 1, r.rest)
                  IN  IF more.err # "none" THEN Raise(more.err)
                      ELSE Ok(<<r.value>> \o more.value, more.rest)

\* FixedList.deserialize, lines 470-477.
FixedListDeserialize(item, length, buf) ==
    LET r == DecodeItems(item, length, buf)
    IN  Tagged(r, ListV(r.value))

\* LVList.deserialize, lines 443-451.
LVListDeserialize(item, length_type, buf) ==
    LET len == IntDeserialize(length_type, buf)
    IN  IF len.err # "none" THEN Raise(len.err)
        ELSE LET r == DecodeItems(item, len.value, len.rest)
             IN  Tagged(r, ListV(r.value))

\* cls.deserialize(data) of the named wire type.
Deserialize(name, buf) ==
    LET c == CodecOf(name)
    IN  CASE c.kind = "int" ->
               LET r == IntDeserialize([size |-> c.size, signed |-> c.signed], buf)
               IN  Tagged(r, IntV(r.value))
          [] c.kind = "bytes" ->
               LET r == LVBytesDeserialize(c.size, buf) IN Tagged(r, BytesV(r.value))
          [] c.kind = "str" ->
               LET r == StrDeserialize(c.size, buf) IN Tagged(r, StrV(r.value))
          [] c.kind = "FixedList" -> FixedListDeserialize(c.item, c.length, buf)
          [] c.kind = "LVList" ->
               LVListDeserialize(c.item, [size |-> c.size, signed |-> c.signed], buf)

\* Optional(optional_item_type).deserialize, lines 526-531.
OptionalKeepsBuffer(inner, buf) ==
    LET r == Deserialize(inner, buf)
    IN  IF r.err = "ValueError" THEN Ok(NoneV, buf) ELSE r

OptionalDeserialize(inner, buf) ==
    LET r == Deserialize(inner, buf)
    IN  IF r.err = "ValueError" THEN Ok(NoneV, <<>>) ELSE r

\* The types Optional wraps here.
InnerTypes == {"uint8_t", "uint16_t", "int16s", "LVBytes", "LongOctetString",
               "CharacterString", "data16", "LVList[uint16_t]"}

OptInit ==
    /\ CacheIdle
    /\ arg \in [op : {"optional"}, inner : InnerTypes, buf : ByteStrings(MaxBuf)]
    /\ pc = "new"
    /\ inst = Ok(NoneV, <<>>)
    /\ wire = <<>>
    /\ res = Ok(NoneV, <<>>)
    /\ data = <<>>
    /\ lst = <<>>

\* Inner.deserialize(buf), for reference; its outcome goes to inst.
OptInner ==
    /\ pc = "new"
    /\ inst' = Deserialize(arg.inner, arg.buf)
    /\ pc' = "inner"
    /\ UNCHANGED <<arg, wire, res, data, lst>>
    /\ UNCHANGED cacheVars

\* Optional(Inner).deserialize(buf)
OptDecode ==
    /\ pc = "inner"
    /\ res' = OptionalDeserialize(arg.inner, arg.buf)
    /\ pc' = "decoded"
    /\ UNCHANGED <<arg, inst, wire, data, lst>>
    /\ UNCHANGED cacheVars

OptNext == OptInner \/ OptDecode

SpecOptional == OptInit /\ [][OptNext]_vars

\* --- List.deserialize, lines 419-428, one pass of the loop per step ---

\* The item types of the unbounded lists decoded here.
ItemTypes == {"uint8_t", "uint16_t", "LVBytes", "data16", "FixedList[uint8_t, 0]"}

\* Passes of the loop after which the model stops following a run: more
\* than any run that consumes a byte per pass can make.
MaxPasses == MaxBuf + 2

ListInit ==
    /\ CacheIdle
    /\ arg \in [op : {"list"}, item : ItemTypes, buf : ByteStrings(MaxBuf)]
    /\ pc = "call"
    /\ inst = 0
    /\ wire = <<>>
    /\ res = Ok(ListV(<<>>), <<>>)
    /\ data = <<>>
    /\ lst = <<>>

\* Line 423: lst = cls()
ListEnter ==
    /\ pc = "call"
    /\ data' = arg.buf
    /\ lst' = <<>>
    /\ pc' = "loop"
    /\ UNCHANGED <<arg, inst, wire, res>>
    /\ UNCHANGED cacheVars

\* Lines 424-426: data is not empty; one item is decoded from it and
\* appended, or its exception ends the call.
ListPass ==
    LET r == Deserialize(arg.item, data)
    IN  /\ pc = "loop"
        /\ data # <<>>
        /\ Len(lst) < MaxPasses
        /\ IF r.err # "none"
           THEN /\ pc' = "raised"
                /\ res' = r
                /\ UNCHANGED <<data, lst>>
           ELSE /\ data' = r.rest
                /\ lst' = Append(lst, r.value)
                /\ UNCHANGED <<pc, res>>
        /\ UNCHANGED <<arg, inst, wire>>
        /\ UNCHANGED cacheVars

\* Lines 424, 428: data is empty; return lst, data
ListReturn ==
    /\ pc = "loop"
    /\ data = <<>>
    /\ res' = Ok(ListV(lst), data)
    /\ pc' = "returned"
    /\ UNCHANGED <<arg, inst, wire, data, lst>>
    /\ UNCHANGED cacheVars

ListNext == ListEnter \/ ListPass \/ ListReturn

SpecList == ListInit /\ [][ListNext]_vars

----------------------------------------------------------------------------
(* enum_factory: enum8 and enum16.                                         *)

EnumTypes == {"enum8", "enum16"}

\* The backing integer type: enum_factory(uint8_t), enum_factory(uint16_t).
EnumIntType(e) == IF e = "enum8" THEN [size |-> 1, signed |-> FALSE]
                                 ELSE [size |-> 2, signed |-> FALSE]

\* The members a subclass declares (class OnOff(enum8): Off = 0x00; On = 0x80).
DeclaredMembers(e) ==
    IF e = "enum8"
    THEN {[name |-> <<"O", "f", "f">>, value |-> 0],
          [name |-> <<"O", "n">>, value |-> 128]}
    ELSE {[name |-> <<"O", "f", "f">>, value |-> 0],
          [name |-> <<"O", "n">>, value |-> 256]}

HexChars == <<"0", "1", "2", "3", "4", "5", "6", "7",
              "8", "9", "a", "b", "c", "d", "e", "f">>

RECURSIVE HexDigits(_)
HexDigits(v) ==
    IF v < 16 THEN <<HexChars[v + 1]>>
    ELSE HexDigits(v \div 16) \o <<HexChars[(v % 16) + 1]>>

\* "{:0Nx}".format(value), lines 167-168: lower-case hexadecimal, padded
\* with zeros on the left to N characters.
HexFormat(v, width) ==
    LET d == HexDigits(v)
    IN  [i \in 1..(width - Len(d)) |-> "0"] \o d

\* The default of enum_factory's parameter `undefined`, line 160.
UndefinedPrefix == <<"u", "n", "d", "e", "f", "i", "n", "e", "d">>

\* _NewEnum._missing_, lines 164-170: a member made on the spot for a value
\* no declared member has.
EnumMissingRaises(e, value) == Raise("ValueError")

EnumMissing(e, value) ==
    LET new == IntNew(EnumIntType(e), value)
    IN  IF new.err # "none" THEN Raise(new.err)
        ELSE Ok([name |-> UndefinedPrefix \o <<"_", "0", "x">>
                          \o HexFormat(value, EnumIntType(e).size * 2),
                 value |-> value], <<>>)

\* cls(value), lines 152-157 and EnumMeta.__call__: the declared member with
\* that value, or what _missing_ returns.
EnumCall(e, value) ==
    IF \E m \in DeclaredMembers(e) : m.value = value
    THEN Ok(CHOOSE m \in DeclaredMembers(e) : m.value = value, <<>>)
    ELSE EnumMissing(e, value)

\* FixedIntType.deserialize with cls an enum, lines 50-57: from_bytes ends
\* in cls(value).
EnumDeserialize(e, buf) ==
    LET t == EnumIntType(e)
    IN  IF Len(buf) < t.size THEN Raise("ValueError")
        ELSE LET r == EnumCall(e, IntFromBytes(Take(buf, t.size), t.signed))
             IN  IF r.err # "none" THEN Raise(r.err)
                 ELSE Ok(r.value, Drop(buf, t.size))

NoMember == [name |-> <<>>, value |-> 0]

EnumInit ==
    /\ CacheIdle
    /\ arg \in [op : {"enum"}, enum : EnumTypes, buf : ByteStrings(MaxBuf)]
    /\ pc = "new"
    /\ inst = 0
    /\ wire = <<>>
    /\ res = Ok(NoMember, <<>>)
    /\ data = <<>>
    /\ lst = <<>>

\* cls.deserialize(buf)
EnumDecode ==
    /\ pc = "new"
    /\ res' = EnumDeserialize(arg.enum, arg.buf)
    /\ pc' = IF res'.err = "none" THEN "decoded" ELSE "raised"
    /\ UNCHANGED <<arg, inst, wire, data, lst>>
    /\ UNCHANGED cacheVars

\* cls.deserialize(buf)[0].serialize()
EnumEncode ==
    /\ pc = "decoded"
    /\ wire' = IntSerialize(EnumIntType(arg.enum), res.value.value).bytes
    /\ pc' = "reencoded"
    /\ UNCHANGED <<arg, inst, res, data, lst>>
    /\ UNCHANGED cacheVars

EnumNext == EnumDecode \/ EnumEncode

SpecEnum == EnumInit /\ [][EnumNext]_vars

----------------------------------------------------------------------------
(* BaseFloat: Half, Single, Double.                                        *)

\* A bit pattern of up to 64 bits is the set of the positions of its 1 bits
\* (position 0 is the least significant).
Bits(n) == {i \in 0..30 : (n \div Pow(2, i)) % 2 = 1}
\* The integer of a bit pattern that fits one (used for exponents).
RECURSIVE IntOf(_)
IntOf(b) == IF b = {} THEN 0
            ELSE LET i == CHOOSE x \in b : TRUE IN Pow(2, i) + IntOf(b \ {i})
\* n >> k, n << k, n & m, n | m, (1 << k) - 1
Shr(b, k) == {i - k : i \in {x \in b : x >= k}}
Shl(b, k) == {i + k : i \in b}
BitAnd(a, b) == a \cap b
BitOr(a, b) == a \cup b
Ones(k) == 0..(k - 1)

\* The three formats, lines 284-293; size is _size in bytes, line 226.
Half == [exponent_bits |-> 5, fraction_bits |-> 10, size |-> 2]
Single == [exponent_bits |-> 8, fraction_bits |-> 23, size |-> 4]
Double == [exponent_bits |-> 11, fraction_bits |-> 52, size |-> 8]

\* BaseFloat._convert_format, lines 228-265.
ConvertFormat(src, dst, n) ==
    LET src_sign == Shr(n, src.exponent_bits + src.fraction_bits)
        src_frac == BitAnd(n, Ones(src.fraction_bits))
        src_biased_exp == IntOf(BitAnd(Shr(n, src.fraction_bits), Ones(src.exponent_bits)))
        src_exp == src_biased_exp - Pow(2, src.exponent_bits - 1)
        dst_min_exp == 2 - Pow(2, dst.exponent_bits - 1)
        dst_max_exp == Pow(2, dst.exponent_bits - 1) - 2
        dst_exp == Min(Max(dst_min_exp, src_exp), dst_max_exp)
        dst_biased_exp ==
            IF src_biased_exp = Pow(2, src.exponent_bits) - 1
            THEN Pow(2, dst.exponent_bits) - 1
            ELSE IF src_biased_exp = 0
            THEN 0
            ELSE dst_exp + Pow(2, dst.exponent_bits - 1)
        dst_frac ==
            IF src.fraction_bits > dst.fraction_bits
            THEN Shr(src_frac, src.fraction_bits - dst.fraction_bits)
            ELSE Shl(src_frac, dst.fraction_bits - src.fraction_bits)
    IN  BitOr(BitOr(Shl(src_sign, dst.exponent_bits + dst.fraction_bits),
                    Shl(Bits(dst_biased_exp), dst.fraction_bits)),
              dst_frac)

\* int.from_bytes(data, "little") and int.to_bytes(size, "little") on bit
\* patterns, lines 269-270 and 278-279.
PatternOfBytes(bytes) ==
    UNION {Shl(Bits(bytes[i]), 8 * (i - 1)) : i \in 1..Len(bytes)}
BytesOfPattern(b, size) ==
    [i \in 1..size |-> IntOf(BitAnd(Shr(b, 8 * (i - 1)), Ones(8)))]

\* BaseFloat.deserialize, lines 272-281.  The float it returns is held as
\* the bit pattern of its double (struct.unpack("<d") of those 8 bytes).
FloatDeserialize(cls, buf) ==
    IF Len(buf) < cls.size
    THEN Raise("ValueError")
    ELSE Ok(ConvertFormat(cls, Double, PatternOfBytes(Take(buf, cls.size))),
            Drop(buf, cls.size))

\* BaseFloat.serialize, lines 267-270, of the float with double pattern d.
FloatSerialize(cls, d) == BytesOfPattern(ConvertFormat(Double, cls, d), cls.size)

\* A pattern of a format from its three fields.
Pattern(fmt, sign, exp, frac) ==
    BitOr(BitOr(Shl(Bits(sign), fmt.exponent_bits + fmt.fraction_bits),
                Shl(Bits(exp), fmt.fraction_bits)),
          frac)

\* The exponent fields tried: the lowest, the middle and the highest ones.
SampleExps(fmt) ==
    LET top == Pow(2, fmt.exponent_bits) - 1
        mid == Pow(2, fmt.exponent_bits - 1)
    IN  {0, 1, 2, 3, mid - 1, mid, mid + 1, top - 2, top - 1, top}

\* The fraction fields tried: none, the lowest bit, the highest bit, mixed, all.
SampleFracs(fmt) ==
    {{}, {0}, {fmt.fraction_bits - 1}, {0, 3, fmt.fraction_bits - 2},
     Ones(fmt.fraction_bits)}

\* The widenings: (narrower format, wider format).
Widenings == {<<Half, Single>>, <<Half, Double>>, <<Single, Double>>}

FloatInit ==
    /\ CacheIdle
    /\ \E w \in Widenings, sign \in {0, 1} :
          \E exp \in SampleExps(w[1]), frac \in SampleFracs(w[1]) :
              arg = [op |-> "float", src |-> w[1], dst |-> w[2],
                     p |-> Pattern(w[1], sign, exp, frac)]
    /\ pc = "new"
    /\ inst = {}
    /\ wire = <<>>
    /\ res = {}
    /\ data = <<>>
    /\ lst = <<>>

\* _convert_format(src=narrow, dst=wide, n=p)
FloatWiden ==
    /\ pc = "new"
    /\ inst' = ConvertFormat(arg.src, arg.dst, arg.p)
    /\ pc' = "widened"
    /\ UNCHANGED <<arg, wire, res, data, lst>>
    /\ UNCHANGED cacheVars

\* _convert_format(src=wide, dst=narrow, n=the widened pattern)
FloatNarrow ==
    /\ pc = "widened"
    /\ res' = ConvertFormat(arg.dst, arg.src, inst)
    /\ pc' = "narrowed"
    /\ UNCHANGED <<arg, inst, wire, data, lst>>
    /\ UNCHANGED cacheVars

\* narrow.deserialize(the bytes of p): the double goes to inst
FloatDecode ==
    /\ pc = "new"
    /\ inst' = FloatDeserialize(arg.src, BytesOfPattern(arg.p, arg.src.size)).value
    /\ pc' = "decoded"
    /\ UNCHANGED <<arg, wire, res, data, lst>>
    /\ UNCHANGED cacheVars

\* narrow.deserialize(the bytes of p)[0].serialize()
FloatEncode ==
    /\ pc = "decoded"
    /\ wire' = FloatSerialize(arg.src, inst)
    /\ pc' = "reencoded"
    /\ UNCHANGED <<arg, inst, res, data, lst>>
    /\ UNCHANGED cacheVars

FloatNext == FloatWiden \/ FloatNarrow \/ FloatDecode \/ FloatEncode

SpecFloat == FloatInit /\ [][FloatNext]_vars

----------------------------------------------------------------------------
(* Claims about the cache of parameterized types.                          *)

\* The parameter tuple of a request as the claim reads it: what was written,
\* followed by the default length type when LVList got one parameter.
ClaimTuple(r) ==
    IF r.cls = "LVList" /\ Len(r.key.items) = 1
    THEN <<r.key.items[1], TypeVal("uint8_t")>>
    ELSE r.key.items

SameDescriptorIffSameTuple ==
    \A p, q \in returned :
        (p.id = q.id) <=> (p.cls = q.cls /\ ClaimTuple(p) = ClaimTuple(q))

EntriesKept ==
    \A k \in DOMAIN anonymous_classes :
        /\ k \in DOMAIN anonymous_classes'
        /\ anonymous_classes'[k] = anonymous_classes[k]

\* C1: in any sequence of requests Base[params], two requests return the same
\* descriptor exactly when they name the same base and the same parameter
\* tuple after defaults are applied (Foo[a], Foo[a,] and Foo[a, default]
\* are the same request), and no request replaces or removes an entry of
\* the cache (both hold after every request).
C1_CacheIdentity == [][EntriesKept /\ SameDescriptorIffSameTuple']_vars

\* C1 witness: LVList[a], LVList[a,] or LVList[a, uint8_t] written two ways
\* got one descriptor, and a request differing only in the length type got
\* another.
C1_Witness ==
    \E p, q, r \in returned :
        /\ p.key # q.key /\ p.id = q.id
        /\ r.cls = p.cls /\ r.key.items[1] = p.key.items[1] /\ r.id # p.id

\* C2: when threads race on the first request for one (base, parameter
\* tuple), exactly one descriptor is constructed for it and every request
\* for it returns that descriptor.
C2_OneDescriptorPerTuple ==
    /\ \A i, j \in DOMAIN classes : classes[i] = classes[j] => i = j
    /\ \A p, q \in returned :
          (p.cls = q.cls /\ ClaimTuple(p) = ClaimTuple(q)) => p.id = q.id

----------------------------------------------------------------------------
(* Claims about the fixed-width integers.                                  *)

\* The range of a (width, signedness) pair.
MinOf(type) == IF type.signed THEN -Pow(2, 8 * type.size - 1) ELSE 0
MaxOf(type) == IF type.signed THEN Pow(2, 8 * type.size - 1) - 1
                               ELSE Pow(2, 8 * type.size) - 1
InRange(type, n) == MinOf(type) <= n /\ n <= MaxOf(type)

\* Byte i of the two's complement little-endian layout of n.
LayoutByte(n, w, i) == ((n + Pow(2, 8 * w)) \div Pow(2, 8 * (i - 1))) % 256

\* C4: serialize(v) is exactly w bytes in little-endian order,
\* deserialize(serialize(v) ++ t) returns (v, t), and a buffer shorter than
\* w bytes is rejected with ValueError (the truncated-data failure).
C4_IntRoundTrip ==
    /\ pc \in {"serialized", "decoded", "short"} =>
          /\ Len(wire) = arg.type.size
          /\ \A i \in 1..Len(wire) : wire[i] = LayoutByte(inst, arg.type.size, i)
    /\ pc = "decoded" => res = Ok(arg.n, arg.tail)
    /\ pc = "short" => res.err = "ValueError"

\* C4 witness: a negative two-byte value was encoded and decoded back in
\* front of trailing bytes.
C4_Witness ==
    /\ pc = "decoded"
    /\ arg.type = [size |-> 2, signed |-> TRUE]
    /\ arg.n < -1
    /\ arg.tail # <<>>
    /\ res.value = arg.n

\* C5: construction succeeds exactly when n lies in [min, max] of the type,
\* fails with ValueError (the range error) otherwise, and no instance,
\* constructed or decoded, holds a value outside the range.
C5_IntRange ==
    /\ pc # "new" /\ pc # "raw" =>
          /\ (pc = "range_error") <=> ~InRange(arg.type, arg.n)
          /\ pc = "range_error" => res.err = "ValueError"
          /\ pc # "range_error" => inst = arg.n /\ InRange(arg.type, inst)
    /\ pc \in {"decoded", "raw"} /\ res.err = "none" => InRange(arg.type, res.value)

\* C5 witness: a construction one past the maximum of a signed type was
\* rejected.
C5_Witness == pc = "range_error" /\ arg.type.signed /\ arg.n = MaxOf(arg.type) + 1

----------------------------------------------------------------------------
(* Claims about the length-prefixed bytes and text.                        *)

\* The number of payload bytes a value puts after its prefix.
Utf8Width(c) == IF c < 128 THEN 1 ELSE IF c < 2048 THEN 2 ELSE IF c < 65536 THEN 3 ELSE 4
Utf8Length(text) ==
    LET count(w) == Cardinality({i \in 1..Len(text) : Utf8Width(text[i]) = w})
    IN  count(1) + 2 * count(2) + 3 * count(3) + 4 * count(4)

PayloadLength == IF arg.kind = "bytes" THEN Len(arg.value) ELSE Utf8Length(arg.value)

\* The largest payload length a prefix leaves room for, plus one.
PrefixLimit == IF arg.prefix_length = 1 THEN 255 ELSE 65535

\* C6: serialize(deserialize(serialize(s)).value) == serialize(s) for every
\* length-prefixed bytes or text value whose payload fits the prefix.
C6_LVRoundTrip ==
    /\ pc = "decoded" => res.err = "none"
    /\ pc # "reencode_error"
    /\ pc = "reencoded" => inst = wire

\* C7: serialize fails exactly when the payload length in bytes is >= 255
\* (1-byte prefix) or >= 65535 (2-byte prefix); otherwise the prefix holds
\* the payload length.
C7_LVLengthLimit ==
    pc \in {"serialized", "too_long"} =>
       /\ (pc = "too_long") <=> (PayloadLength >= PrefixLimit)
       /\ pc = "serialized" =>
             /\ Len(wire) = arg.prefix_length + PayloadLength
             /\ UnsignedLE(Take(wire, arg.prefix_length)) = PayloadLength

----------------------------------------------------------------------------
(* Claims about the optional wrapper and the unbounded list.               *)

\* C3: Optional(Inner).deserialize returns the inner codec's (value,
\* remaining bytes) when the inner decode succeeds and (None, empty) when it
\* fails, whatever the buffer held; no failure reaches the caller.
C3_OptionalDecode ==
    pc = "decoded" =>
       /\ res.err = "none"
       /\ inst.err = "none" => res = inst
       /\ inst.err # "none" => res = Ok(NoneV, <<>>)

\* C3 witness: the inner decode of a buffer that holds bytes failed and the
\* wrapper returned (None, empty).
C3_Witness ==
    /\ pc = "decoded"
    /\ inst.err = "ValueError"
    /\ arg.buf # <<>>
    /\ res.value = NoneV

\* The bytes the items of a decoded list stand for, in order.
RECURSIVE ItemBytes(_, _)
ItemBytes(name, v) ==
    LET c == CodecOf(name)
    IN  CASE c.kind = "int" ->
               [i \in 1..c.size |-> LayoutByte(v.val, c.size, i)]
          [] c.kind = "bytes" ->
               [i \in 1..c.size |-> LayoutByte(Len(v.val), c.size, i)] \o v.val
          [] c.kind = "FixedList" ->
               IF v.val = <<>> THEN <<>>
               ELSE ItemBytes(c.item, v.val[1])
                    \o ItemBytes(name, ListV(Tail(v.val)))

RECURSIVE AllItemBytes(_, _)
AllItemBytes(name, items) ==
    IF items = <<>> THEN <<>>
    ELSE ItemBytes(name, items[1]) \o AllItemBytes(name, Tail(items))

\* A pass of the loop that leaves the loop running.
ListLoops == pc = "loop" /\ pc' = "loop"

\* C9: List.deserialize ends on every finite buffer: the loop goes on
\* according to `data` alone, so each pass that leaves it running must
\* have shortened `data`.  When it returns, it returns
\* every item of the buffer in order and an empty remainder; when the buffer
\* ends in a partial item it raises ValueError (the truncated-data error).
C9_ListDecode ==
    /\ [][ListLoops => Len(data') < Len(data)]_vars
    /\ [](pc = "returned" =>
             /\ res.rest = <<>>
             /\ AllItemBytes(arg.item, res.value.val) = arg.buf)
    /\ [](pc = "raised" => res.err = "ValueError")

----------------------------------------------------------------------------
(* Claims about the enums.                                                 *)

\* The value a string of lower-case hexadecimal digits denotes.
RECURSIVE HexValue(_)
HexValue(d) ==
    IF d = <<>> THEN 0
    ELSE 16 * HexValue(SubSeq(d, 1, Len(d) - 1))
         + (CHOOSE k \in 0..15 : HexChars[k + 1] = d[Len(d)])

\* The raw value at the head of the buffer and the width of the enum.
EnumWidth == EnumIntType(arg.enum).size
RawValue == IF EnumWidth = 1 THEN arg.buf[1] ELSE arg.buf[1] + 256 * arg.buf[2]

\* C8: decoding a buffer of at least w bytes never fails; a raw value of a
\* declared member yields that member; any other raw value yields a member
\* named undefined_0x<hex of the raw value> that carries the raw value; and
\* re-encoding what was decoded gives the original w bytes.
C8_EnumDecode ==
    /\ pc = "raised" => Len(arg.buf) < EnumWidth
    /\ pc \in {"decoded", "reencoded"} =>
          /\ Len(arg.buf) >= EnumWidth
          /\ res.value.value = RawValue
          /\ res.rest = Drop(arg.buf, EnumWidth)
          /\ \A m \in DeclaredMembers(arg.enum) : m.value = RawValue => res.value = m
          /\ (\A m \in DeclaredMembers(arg.enum) : m.value # RawValue) =>
                /\ Len(res.value.name) = 12 + 2 * EnumWidth
                /\ SubSeq(res.value.name, 1, 12)
                      = <<"u", "n", "d", "e", "f", "i", "n", "e", "d", "_", "0", "x">>
                /\ HexValue(Drop(res.value.name, 12)) = RawValue
    /\ pc = "reencoded" => wire = Take(arg.buf, EnumWidth)

\* C8 witness: a two-byte raw value no member declares was decoded and
\* encoded again.
C8_Witness ==
    /\ pc = "reencoded"
    /\ arg.enum = "enum16"
    /\ \A m \in DeclaredMembers(arg.enum) : m.value # res.value.value
    /\ res.value.value > 255

----------------------------------------------------------------------------
(* Claims about the floats.                                                *)

\* C10: widening is lossless: a bit pattern of a narrower format, converted
\* to a wider format and back, is the same pattern again (and so are its
\* bytes after deserialize and serialize, which go through Double).
C10_WidenLossless ==
    /\ pc = "narrowed" => res = arg.p
    /\ pc = "reencoded" => wire = BytesOfPattern(arg.p, arg.src.size)

=============================================================================
